---- MODULE Spec2Model ----
(***************************************************************************)
(* Stochastic Dynamic Evaluation System (DynamicStochasticSystem.tsx).     *)
(*                                                                         *)
(* A cohort of students, each with a time-slot x subject score matrix in   *)
(* which a cell is an integer score or null.  The component classifies    *)
(* every null cell (analyzeMissingType), fills it by temporal              *)
(* interpolation or by the selected algorithm (handleRunAlgorithm), and    *)
(* ranks the cohort by a weighted sum (recalcScores).                      *)
(*                                                                         *)
(* Numbers.  Scores are integers.  Weights are multiples of 0.01 (the      *)
(* sliders' step): an entry holds the decimal as integer hundredths (field *)
(* weight) and the number the code computes with, the double nearest to    *)
(* the decimal (field double).  finalScore, every number of an imputation  *)
(* (mean, std, the value rounded at line 291) and the correlation          *)
(* coefficient are doubles, computed with the rounding of every *, +, -,   *)
(* / and Math.sqrt of the code.                                            *)
(* Time slots and subjects are numbered from 1 and the number is the id.   *)
(***************************************************************************)
EXTENDS Integers, Sequences, FiniteSets, TLC

VARIABLES
    students,       \* useState students: the cohort, a sequence of records
    timeSlots,      \* useState timeSlots: sequence of [id, weight]
    subjects,       \* useState subjects: sequence of [id, weight, full]
    algorithm,      \* useState algorithm
    isCalculated,   \* useState isCalculated
    isAnimating,    \* useState isAnimating
    imputationLog,  \* useState imputationLog
    timers,         \* pending setTimeout callbacks (closures of handleRunAlgorithm)
    rescorePending, \* the update queued by the effect of line 188 awaits its render
    call            \* the function applied last and what it returned

vars == <<students, timeSlots, subjects, algorithm, isCalculated, isAnimating,
          imputationLog, timers, rescorePending, call>>

(***************************************************************************)
(* Bounds of the model.                                                    *)
(***************************************************************************)
MaxSlots == 5       \* longest time-slot list given to analyzeMissingType
MaxCorrStudents == 4    \* largest cohort given to calculateCorrelation
MaxScoreStudents == 3   \* largest cohort given to recalcScores
MaxAbsent == 3          \* most null cells in a cohort given to an imputation pass

(***************************************************************************)
(* IEEE 754 double-precision arithmetic on non-negative numbers, as the    *)
(* JavaScript operators *, + and / compute it (round to nearest, ties to   *)
(* even).  A natural number of any size is the sequence of its digits in   *)
(* base 2^14, least significant first, without leading zeros; <<>> is 0.   *)
(* A double is the record [m, e], the number m * 2^e with m a natural of   *)
(* exactly 53 bits; 0 is [m |-> <<>>, e |-> 0].                            *)
(***************************************************************************)
Base == 16384
DigitBits == 14
MantissaBits == 53

Digit(a, i) == IF i <= Len(a) THEN a[i] ELSE 0

RECURSIVE Trim(_)
Trim(a) ==
    IF a = <<>> THEN a
    ELSE IF a[Len(a)] = 0 THEN Trim(SubSeq(a, 1, Len(a) - 1))
    ELSE a

RECURSIVE BigFromInt(_)
BigFromInt(n) == IF n = 0 THEN <<>> ELSE <<n % Base>> \o BigFromInt(n \div Base)

\* The value of a natural below 2^31.
BigToInt(a) == Digit(a, 1) + Base * Digit(a, 2) + Base * Base * Digit(a, 3)

RECURSIVE BigAddFrom(_, _, _, _)
BigAddFrom(a, b, i, carry) ==
    IF i > Len(a) /\ i > Len(b)
    THEN IF carry = 0 THEN <<>> ELSE <<carry>>
    ELSE LET s == Digit(a, i) + Digit(b, i) + carry
         IN  <<s % Base>> \o BigAddFrom(a, b, i + 1, s \div Base)

BigAdd(a, b) == BigAddFrom(a, b, 1, 0)

\* a - b for a >= b.
RECURSIVE BigSubFrom(_, _, _, _)
BigSubFrom(a, b, i, borrow) ==
    IF i > Len(a) THEN <<>>
    ELSE LET d == a[i] - Digit(b, i) - borrow
         IN  <<d % Base>> \o BigSubFrom(a, b, i + 1, IF d < 0 THEN 1 ELSE 0)

BigSub(a, b) == Trim(BigSubFrom(a, b, 1, 0))

\* a * k for 0 <= k < 2^16.
RECURSIVE BigMulSmallFrom(_, _, _, _)
BigMulSmallFrom(a, k, i, carry) ==
    IF i > Len(a) THEN BigFromInt(carry)
    ELSE LET p == a[i] * k + carry
         IN  <<p % Base>> \o BigMulSmallFrom(a, k, i + 1, p \div Base)

BigMulSmall(a, k) == IF k = 0 THEN <<>> ELSE BigMulSmallFrom(a, k, 1, 0)

\* a * Base^q.
BigShiftDigits(a, q) == IF a = <<>> THEN a ELSE [i \in 1..q |-> 0] \o a

\* a * b for two naturals of four digits (mantissas): the columns of the long
\* multiplication, each below 2^31, and their carries.
BigMul(a, b) ==
    LET c1 == a[1] * b[1]
        c2 == a[1] * b[2] + a[2] * b[1] + (c1 \div Base)
        c3 == a[1] * b[3] + a[2] * b[2] + a[3] * b[1] + (c2 \div Base)
        c4 == a[1] * b[4] + a[2] * b[3] + a[3] * b[2] + a[4] * b[1] + (c3 \div Base)
        c5 == a[2] * b[4] + a[3] * b[3] + a[4] * b[2] + (c4 \div Base)
        c6 == a[3] * b[4] + a[4] * b[3] + (c5 \div Base)
        c7 == a[4] * b[4] + (c6 \div Base)
    IN  <<c1 % Base, c2 % Base, c3 % Base, c4 % Base, c5 % Base, c6 % Base,
          c7 % Base, c7 \div Base>>

\* floor(a / d) for 0 < d < 2^16, from the most significant digit down.
RECURSIVE BigDivSmallFrom(_, _, _, _)
BigDivSmallFrom(a, d, i, rem) ==
    IF i = 0 THEN <<>>
    ELSE LET cur == rem * Base + a[i]
         IN  BigDivSmallFrom(a, d, i - 1, cur % d) \o <<cur \div d>>

BigDivSmall(a, d) == Trim(BigDivSmallFrom(a, d, Len(a), 0))

\* a * 2^k and floor(a / 2^k).
BigShiftLeft(a, k) ==
    BigShiftDigits(BigMulSmall(a, 2 ^ (k % DigitBits)), k \div DigitBits)

BigShiftRight(a, k) ==
    IF k \div DigitBits >= Len(a) THEN <<>>
    ELSE BigDivSmall(SubSeq(a, (k \div DigitBits) + 1, Len(a)), 2 ^ (k % DigitBits))

\* Bit i of a (bit 0 is the least significant), and whether bits 0..k-1 are all 0.
BigBit(a, i) == (Digit(a, (i \div DigitBits) + 1) \div (2 ^ (i % DigitBits))) % 2

BigLowBitsZero(a, k) ==
    /\ \A i \in 1..(k \div DigitBits) : Digit(a, i) = 0
    /\ Digit(a, (k \div DigitBits) + 1) % (2 ^ (k % DigitBits)) = 0

\* The number of bits of a digit.
DigitBitLength(d) ==
    IF d < 128
    THEN IF d < 8 THEN (IF d < 2 THEN d ELSE IF d < 4 THEN 2 ELSE 3)
         ELSE IF d < 32 THEN (IF d < 16 THEN 4 ELSE 5)
         ELSE IF d < 64 THEN 6 ELSE 7
    ELSE IF d < 2048
         THEN IF d < 512 THEN (IF d < 256 THEN 8 ELSE 9)
              ELSE IF d < 1024 THEN 10 ELSE 11
         ELSE IF d < 8192 THEN (IF d < 4096 THEN 12 ELSE 13)
         ELSE 14

BigBitLength(a) ==
    IF a = <<>> THEN 0 ELSE DigitBits * (Len(a) - 1) + DigitBitLength(a[Len(a)])

RECURSIVE BigLessFrom(_, _, _)
BigLessFrom(a, b, i) ==
    IF i = 0 THEN FALSE
    ELSE IF a[i] # b[i] THEN a[i] < b[i]
    ELSE BigLessFrom(a, b, i - 1)

BigLess(a, b) ==
    IF Len(a) # Len(b) THEN Len(a) < Len(b) ELSE BigLessFrom(a, b, Len(a))

\* floor(a / 2^k + 1/2): a / 2^k rounded to the nearest integer, halves up.
BigRoundShift(a, k) ==
    IF k = 0 THEN a ELSE BigShiftRight(BigAdd(a, BigShiftLeft(<<1>>, k - 1)), k)

FZero == [m |-> <<>>, e |-> 0]

\* q or q + 1: the quotient q of a division by a power of two rounded to
\* nearest, ties to even, given the bit below q (half) and whether every bit
\* below that one is 0 (exact).
RoundEven(q, half, exact) ==
    IF half /\ (~exact \/ Digit(q, 1) % 2 = 1) THEN BigAdd(q, <<1>>) ELSE q

\* The double with mantissa q of 53 bits, or of 54 after the carry of a rounding.
FCarry(q, e) ==
    IF BigBitLength(q) > MantissaBits
    THEN [m |-> BigShiftRight(q, 1), e |-> e + 1]
    ELSE [m |-> q, e |-> e]

\* The double nearest to big * 2^e, where big # 0 has s + 53 bits.
FNormal(big, e, s) ==
    IF s <= 0 THEN [m |-> BigShiftLeft(big, -s), e |-> e + s]
    ELSE FCarry(RoundEven(BigShiftRight(big, s), BigBit(big, s - 1) = 1,
                          BigLowBitsZero(big, s - 1)),
                e + s)

\* The double nearest to big * 2^e, ties to the even mantissa.
FRound(big, e) ==
    IF big = <<>> THEN FZero ELSE FNormal(big, e, BigBitLength(big) - MantissaBits)

FromInt(n) == FRound(BigFromInt(n), 0)

\* x * y
FMul(x, y) ==
    IF x = FZero \/ y = FZero THEN FZero
    ELSE FRound(BigMul(x.m, y.m), x.e + y.e)

\* x + y for x, y # 0, both written with the exponent e.
FAddAt(x, y, e) ==
    FRound(BigAdd(BigShiftLeft(x.m, x.e - e), BigShiftLeft(y.m, y.e - e)), e)

\* x + y
FAdd(x, y) ==
    IF x = FZero THEN y
    ELSE IF y = FZero THEN x
    ELSE FAddAt(x, y, IF x.e < y.e THEN x.e ELSE y.e)

\* Long division by a mantissa d of 53 bits, one digit of the quotient at a
\* time: rem < d, and the k digits of the quotient of rem * Base^k by d are put
\* before q.  A digit is estimated from below with the leading 30 bits of
\* rem * Base and the leading 16 bits dtop of d, then corrected.
RECURSIVE FDivCorrect(_, _, _)
FDivCorrect(rem, d, qh) ==
    IF BigLess(rem, d) THEN [rem |-> rem, qh |-> qh]
    ELSE FDivCorrect(BigSub(rem, d), d, qh + 1)

FDivDigit(shifted, d, est) ==
    FDivCorrect(BigSub(shifted, BigMulSmall(d, est)), d, est)

FDivEstimate(shifted, d, dtop) ==
    FDivDigit(shifted, d, BigToInt(BigShiftRight(shifted, 37)) \div (dtop + 1))

RECURSIVE FDivSteps(_, _, _, _, _)
FDivPut(c, d, dtop, q, k) == FDivSteps(c.rem, d, dtop, <<c.qh>> \o q, k)

FDivSteps(rem, d, dtop, q, k) ==
    IF k = 0 THEN [q |-> Trim(q), sticky |-> rem # <<>>]
    ELSE FDivPut(FDivEstimate(BigShiftDigits(rem, 1), d, dtop), d, dtop, q, k - 1)

\* floor(a * 2^56 / d) for mantissas a and d, the first digit of the quotient
\* being first, and whether the division left a remainder.
FDivFirst(a, d, first) ==
    FDivSteps(IF first = 1 THEN BigSub(a, d) ELSE a, d,
              BigToInt(BigShiftRight(d, 37)), <<first>>, 4)

FDivLong(a, d) == FDivFirst(a, d, IF BigLess(a, d) THEN 0 ELSE 1)

\* The same for floor(n / d) with 0 < d < 2^11.
FDivExact(n, d, q) == [q |-> q, sticky |-> BigMulSmall(q, d) # n]

FDivShort(n, d) == FDivExact(n, d, BigDivSmall(n, d))

\* The double nearest to (r.q + a fraction) * 2^(e + 1), the fraction being
\* 0 or, if r.sticky, strictly between 0 and 1.
FQuotient(r, e) ==
    FRound(BigAdd(BigMulSmall(r.q, 2), IF r.sticky THEN <<1>> ELSE <<>>), e)

\* The mantissa d is d[4] * 2^42.
ShortMantissa(d) == d[1] = 0 /\ d[2] = 0 /\ d[3] = 0

\* x / y for y # 0: the quotient to 57 bits or more and a sticky bit, rounded.
FDiv(x, y) ==
    IF x = FZero THEN FZero
    ELSE FQuotient(IF ShortMantissa(y.m)
                   THEN FDivShort(BigShiftDigits(x.m, 2), y.m[4])
                   ELSE FDivLong(x.m, y.m),
                   x.e - y.e - (IF ShortMantissa(y.m) THEN 71 ELSE 57))

\* x < y
FLess(x, y) ==
    IF y = FZero THEN FALSE
    ELSE IF x = FZero THEN TRUE
    ELSE IF x.e # y.e THEN x.e < y.e
    ELSE BigLess(x.m, y.m)

\* x - y for x >= y > 0, both written with the exponent e.
FSubAt(x, y, e) ==
    FRound(BigSub(BigShiftLeft(x.m, x.e - e), BigShiftLeft(y.m, y.e - e)), e)

\* x - y for x >= y
FSub(x, y) ==
    IF y = FZero THEN x ELSE FSubAt(x, y, IF x.e < y.e THEN x.e ELSE y.e)

\* floor(sqrt(t)) for 0 < t < 2^30, by Newton's iteration from g >= sqrt(t).
RECURSIVE IntSqrtFrom(_, _)
IntSqrtFrom(t, g) ==
    IF (g + t \div g) \div 2 >= g THEN g ELSE IntSqrtFrom(t, (g + t \div g) \div 2)

\* The largest mantissa, 2^53 - 1.
MaxMantissa == <<Base - 1, Base - 1, Base - 1, 2 ^ 11 - 1>>

\* Math.sqrt of a mantissa m scaled to m * 2^k (k = 52 or 53, 104 to 106 bits):
\* the root r of 53 bits nearest to sqrt(m * 2^k).  One step of Newton's
\* iteration takes r to (r + m * 2^k / r) / 2; two steps from a root of 15 bits
\* end next to the root, and r is then moved until
\* (2r - 1)^2 < 4 * m * 2^k < (2r + 1)^2, which no tie can meet with equality.
FSqrtClamp(r) == IF BigBitLength(r) > MantissaBits THEN MaxMantissa ELSE r

FSqrtNewton(m, k, r) ==
    FSqrtClamp(BigShiftRight(BigAdd(r, BigShiftRight(FDivLong(m, r).q, 56 - k)), 1))

BigSquare(a) == BigMul(a, a)

RECURSIVE FSqrtFix(_, _)
FSqrtFix(r, m4) ==
    IF BigLess(BigSquare(BigAdd(BigMulSmall(r, 2), <<1>>)), m4)
    THEN FSqrtFix(BigAdd(r, <<1>>), m4)
    ELSE IF BigLess(m4, BigSquare(BigSub(BigMulSmall(r, 2), <<1>>)))
    THEN FSqrtFix(BigSub(r, <<1>>), m4)
    ELSE r

FSqrtFirst(m, k) ==
    BigShiftLeft(BigFromInt(IntSqrtFrom(BigToInt(BigShiftRight(m, 76 - k)), 2 ^ 15)), 38)

FSqrtMantissa(m, k) ==
    FSqrtFix(FSqrtNewton(m, k, FSqrtNewton(m, k, FSqrtFirst(m, k))),
             BigShiftLeft(m, k + 2))

FSqrtAt(x, k) == [m |-> FSqrtMantissa(x.m, k), e |-> (x.e - k) \div 2]

\* Math.sqrt(x): the double nearest to the square root of x.
FSqrt(x) ==
    IF x = FZero THEN FZero ELSE FSqrtAt(x, IF x.e % 2 = 0 THEN 52 ELSE 53)

\* A number of either sign: the double of its magnitude and whether it is
\* below 0.  Zero is held as +0: the sums of lines 77-81 start from +0, and
\* +0 + -0 is +0.
Signed(neg, x) == [neg |-> neg /\ x # FZero, abs |-> x]

SMul(x, y) == Signed(x.neg # y.neg, FMul(x.abs, y.abs))

SDiv(x, y) == Signed(x.neg # y.neg, FDiv(x.abs, y.abs))

\* x + y
SAdd(x, y) ==
    IF x.neg = y.neg THEN Signed(x.neg, FAdd(x.abs, y.abs))
    ELSE IF FLess(x.abs, y.abs) THEN Signed(y.neg, FSub(y.abs, x.abs))
    ELSE Signed(x.neg, FSub(x.abs, y.abs))

\* x - y for x, y >= 0
SSub(x, y) ==
    IF FLess(x, y) THEN Signed(TRUE, FSub(y, x)) ELSE Signed(FALSE, FSub(x, y))

\* Math.round(x) for a double 0 <= x < 2^22: floor(x + 1/2).
MathRound(x) ==
    IF x = FZero THEN 0 ELSE BigToInt(BigRoundShift(x.m, -x.e))

(***************************************************************************)
(* Values and configuration.                                               *)
(***************************************************************************)
Null == -1          \* the null of an absent cell; scores are >= 0

AlgorithmType == {"box-muller", "regression", "knn"}

\* The number of a weight of w hundredths: the double that the literal of
\* lines 31-45 denotes and that parseFloat returns for the slider's decimal,
\* the nearest one to w / 100.
WeightOf(w) == FDiv(FromInt(w), FromInt(100))

\* A time-slot list of n slots with the weights ws (hundredths).  An entry
\* holds its weight twice: the decimal in hundredths and the number computed
\* with.
MkTimeSlots(ws) ==
    [i \in 1..Len(ws) |-> [id |-> i, weight |-> ws[i], double |-> WeightOf(ws[i])]]

\* A subject list with the weights ws (hundredths) and full marks fs.
MkSubjects(ws, fs) ==
    [i \in 1..Len(ws) |->
        [id |-> i, weight |-> ws[i], double |-> WeightOf(ws[i]), full |-> fs[i]]]

\* DEFAULT_TIME_SLOTS and DEFAULT_SUBJECTS, cut to the first n entries.
DEFAULT_TIME_WEIGHTS == <<10, 15, 20, 15, 20, 20>>
DEFAULT_SUBJECT_WEIGHTS == <<14, 13, 13, 10, 10, 10, 10, 10, 10>>
DEFAULT_SUBJECT_FULL == <<150, 150, 150, 100, 100, 100, 100, 100, 100>>

\* The first n of the subjects of type 'sub' (x4, x5, ...), full marks 100.
SubSubjects(n) ==
    MkSubjects(SubSeq(DEFAULT_SUBJECT_WEIGHTS, 4, 3 + n), SubSeq(DEFAULT_SUBJECT_FULL, 4, 3 + n))

DefaultTimeSlots(n) == MkTimeSlots(SubSeq(DEFAULT_TIME_WEIGHTS, 1, n))
DefaultSubjects(n) ==
    MkSubjects(SubSeq(DEFAULT_SUBJECT_WEIGHTS, 1, n), SubSeq(DEFAULT_SUBJECT_FULL, 1, n))

\* loadData's record for one student of the raw data.
MkStudent(key, data) ==
    [id |-> key, data |-> data, finalScore |-> FZero, imputedDetails |-> <<>>]

(***************************************************************************)
(* analyzeMissingType                                                      *)
(***************************************************************************)
\* while (i >= 0 && studentData[timeSlots[i].id][subId] === null) { missingLen++; i--; }
RECURSIVE ScanBack(_, _, _, _)
ScanBack(studentData, i, subId, tSlots) ==
    IF i >= 1 /\ studentData[tSlots[i].id][subId] = Null
    THEN 1 + ScanBack(studentData, i - 1, subId, tSlots)
    ELSE 0

\* while (j < timeSlots.length && studentData[timeSlots[j].id][subId] === null) { missingLen++; j++; }
RECURSIVE ScanForward(_, _, _, _)
ScanForward(studentData, j, subId, tSlots) ==
    IF j <= Len(tSlots) /\ studentData[tSlots[j].id][subId] = Null
    THEN 1 + ScanForward(studentData, j + 1, subId, tSlots)
    ELSE 0

MissingLen(studentData, timeIdx, subId, tSlots) ==
    1 + ScanBack(studentData, timeIdx - 1, subId, tSlots)
      + ScanForward(studentData, timeIdx + 1, subId, tSlots)

\* Variant: the edge test applied to the whole run of null cells, not to timeIdx.
IsEdgeGapRun(studentData, timeIdx, subId, tSlots) ==
    \/ timeIdx - ScanBack(studentData, timeIdx - 1, subId, tSlots) = 1
    \/ timeIdx + ScanForward(studentData, timeIdx + 1, subId, tSlots) = Len(tSlots)

\* const isEdge = timeIdx === 0 || timeIdx === timeSlots.length - 1
IsEdge(studentData, timeIdx, subId, tSlots) ==
    timeIdx = 1 \/ timeIdx = Len(tSlots)

\* Variant: the last time slot is not treated as an edge.
analyzeMissingTypeFirstEdgeOnly(studentData, timeIdx, subId, tSlots) ==
    IF studentData[tSlots[timeIdx].id][subId] # Null THEN "none"
    ELSE IF \/ MissingLen(studentData, timeIdx, subId, tSlots) > 2
            \/ timeIdx = 1
         THEN "continuous"
         ELSE "discrete"

analyzeMissingType(studentData, timeIdx, subId, tSlots) ==
    IF studentData[tSlots[timeIdx].id][subId] # Null THEN "none"
    ELSE IF \/ MissingLen(studentData, timeIdx, subId, tSlots) > 2
            \/ IsEdge(studentData, timeIdx, subId, tSlots)
         THEN "continuous"
         ELSE "discrete"

(***************************************************************************)
(* calculateCorrelation, in the doubles of lines 73-83.                    *)
(***************************************************************************)
RECURSIVE SumSeq(_)
SumSeq(seq) == IF seq = <<>> THEN 0 ELSE Head(seq) + SumSeq(Tail(seq))

\* The results 0 (lines 71 and 83) and 1.
CorrZero == Signed(FALSE, FZero)
CorrOne == Signed(FALSE, FromInt(1))

\* data.map(s => a !== null && b !== null ? [a, b] : null).filter(Boolean)
ValidPairs(data, subA, subB, timeId) ==
    LET pairOf(i) == <<data[i].data[timeId][subA], data[i].data[timeId][subB]>>
        idx == SelectSeq([i \in 1..Len(data) |-> i],
                         LAMBDA i : pairOf(i)[1] # Null /\ pairOf(i)[2] # Null)
    IN  [k \in 1..Len(idx) |-> pairOf(idx[k])]

\* validPairs.reduce((s, p) => s + p[c], 0) / validPairs.length: the sum of
\* the scores is an integer, held exactly.
PairMean(validPairs, c) ==
    FDiv(FromInt(SumSeq([k \in 1..Len(validPairs) |-> validPairs[k][c]])),
         FromInt(Len(validPairs)))

\* One turn of the loop of lines 77-81 for the deviations da = p[0] - meanA and
\* db = p[1] - meanB.  Math.pow(x, 2) is x * x.
CorrAdd(acc, da, db) ==
    [num |-> SAdd(acc.num, SMul(da, db)),
     denA |-> FAdd(acc.denA, FMul(da.abs, da.abs)),
     denB |-> FAdd(acc.denB, FMul(db.abs, db.abs))]

\* The loop from pair k on.
RECURSIVE CorrSums(_, _, _, _, _)
CorrSums(validPairs, k, meanA, meanB, acc) ==
    IF k > Len(validPairs) THEN acc
    ELSE CorrSums(validPairs, k + 1, meanA, meanB,
                  CorrAdd(acc, SSub(FromInt(validPairs[k][1]), meanA),
                               SSub(FromInt(validPairs[k][2]), meanB)))

\* denA === 0 || denB === 0 ? 0 : num / Math.sqrt(denA * denB)
CorrQuotient(acc) ==
    IF acc.denA = FZero \/ acc.denB = FZero THEN CorrZero
    ELSE SDiv(acc.num, Signed(FALSE, FSqrt(FMul(acc.denA, acc.denB))))

\* Variant: the sample-size guard is dropped (a correlation from 1 or 2 pairs).
CorrelationOfPairsNoGuard(validPairs) ==
    CorrQuotient(CorrSums(validPairs, 1, PairMean(validPairs, 1), PairMean(validPairs, 2),
                          [num |-> CorrZero, denA |-> FZero, denB |-> FZero]))

\* Lines 71-83.
CorrelationOfPairs(validPairs) ==
    IF Len(validPairs) < 3 THEN CorrZero
    ELSE CorrQuotient(CorrSums(validPairs, 1, PairMean(validPairs, 1),
                               PairMean(validPairs, 2),
                               [num |-> CorrZero, denA |-> FZero, denB |-> FZero]))

calculateCorrelation(data, subA, subB, timeId) ==
    CorrelationOfPairs(ValidPairs(data, subA, subB, timeId))

(***************************************************************************)
(* recalcScores                                                            *)
(***************************************************************************)
\* s.data[t.id]?.[sub.id] || 0
CellOrZero(s, t, sub) ==
    IF s.data[t.id][sub.id] = Null THEN 0 ELSE s.data[t.id][sub.id]

\* Lines 171-175: tScore after the first n subjects (tScore += val * sub.weight).
RECURSIVE SlotScore(_, _, _, _)
SlotScore(s, t, subs, n) ==
    IF n = 0 THEN FZero
    ELSE FAdd(SlotScore(s, t, subs, n - 1),
              FMul(FromInt(CellOrZero(s, t, subs[n])), subs[n].double))

\* Lines 169-177: total after the first n time slots (total += tScore * t.weight).
RECURSIVE TotalScore(_, _, _, _)
TotalScore(s, tSlots, subs, n) ==
    IF n = 0 THEN FZero
    ELSE FAdd(TotalScore(s, tSlots, subs, n - 1),
              FMul(SlotScore(s, tSlots[n], subs, Len(subs)), tSlots[n].double))

\* Lines 168-178: the finalScore of a student, a double.
WeightedTotal(s, tSlots, subs) == TotalScore(s, tSlots, subs, Len(tSlots))

\* Variant: ascending order.
InsertAscending(sorted, x) ==
    SelectSeq(sorted, LAMBDA y : ~FLess(x.finalScore, y.finalScore))
        \o <<x>> \o SelectSeq(sorted, LAMBDA y : FLess(x.finalScore, y.finalScore))

\* Array.prototype.sort is stable: an element goes after every element that the
\* comparator b.finalScore - a.finalScore does not put behind it.
InsertByScore(sorted, x) ==
    SelectSeq(sorted, LAMBDA y : ~FLess(y.finalScore, x.finalScore))
        \o <<x>> \o SelectSeq(sorted, LAMBDA y : FLess(y.finalScore, x.finalScore))

RECURSIVE SortByScore(_)
SortByScore(list) ==
    IF list = <<>> THEN <<>>
    ELSE InsertByScore(SortByScore(SubSeq(list, 1, Len(list) - 1)), list[Len(list)])

recalcScores(studentList, tSlots, subs) ==
    SortByScore([i \in 1..Len(studentList) |->
                   [studentList[i] EXCEPT !.finalScore =
                        WeightedTotal(studentList[i], tSlots, subs)]])

(***************************************************************************)
(* handleRunAlgorithm: the imputation pass of the setTimeout callback.     *)
(*                                                                         *)
(* Random draws are inputs: a draw is the record [rn, rd, zn, zd] of one   *)
(* Math.random() outcome rn/rd in [0, 1), used by the interpolation        *)
(* jitter, and one standard normal deviate zn/zd, the value                *)
(* sqrt(-2 ln u) * cos(2 pi v) of generateBoxMuller.  The k-th cell of a   *)
(* pass that draws (an interpolated cell, a Box-Muller cell) takes the     *)
(* k-th draw of the pass's tape.                                           *)
(***************************************************************************)
Min2(x, y) == IF x <= y THEN x ELSE y

\* Variant: Math.max(0, Math.round(imputedVal)), no clamp at sub.full.  A value
\* above 6 * full is not told apart from 6 * full.
RoundNoUpperClamp(x, full) ==
    IF x.neg THEN 0
    ELSE IF x.abs # FZero /\ x.abs.e >= -30 THEN 6 * full
    ELSE Min2(6 * full, MathRound(x.abs))

\* Math.max(0, Math.min(sub.full, Math.round(imputedVal))).  Math.round of a
\* number below 0 is 0 or less; a double with e >= -30 is 2^22 or more.
RoundClamp(x, full) ==
    IF x.neg THEN 0
    ELSE IF x.abs # FZero /\ x.abs.e >= -30 THEN full
    ELSE Min2(full, MathRound(x.abs))

\* students.map(s => s.data[time.id][sub.id]).filter(v => v !== null)
ValidVals(cohort, timeId, subId) ==
    SelectSeq([i \in 1..Len(cohort) |-> cohort[i].data[timeId][subId]],
              LAMBDA v : v # Null)

\* validVals.length || 1
LenOr1(validVals) == IF Len(validVals) = 0 THEN 1 ELSE Len(validVals)

\* const mean = validVals.reduce((a, b) => a + b, 0) / (validVals.length || 1):
\* the sum of the scores is an integer, held exactly.
MeanOf(validVals) == FDiv(FromInt(SumSeq(validVals)), FromInt(LenOr1(validVals)))

\* validVals.reduce((a, b) => a + Math.pow(b - mean, 2), 0) from the k-th value
\* on.  Math.pow(x, 2) is x * x.
FSquare(x) == FMul(x, x)

RECURSIVE SumSquares(_, _, _, _)
SumSquares(validVals, k, mean, acc) ==
    IF k > Len(validVals) THEN acc
    ELSE SumSquares(validVals, k + 1, mean,
                    FAdd(acc, FSquare(SSub(FromInt(validVals[k]), mean).abs)))

\* const std = Math.sqrt(... / (validVals.length || 1))
StdOf(validVals, mean) ==
    FSqrt(FDiv(SumSquares(validVals, 1, mean, FZero), FromInt(LenOr1(validVals))))

\* The deviate z of a draw (line 58) and its Math.random().
Deviate(draw) ==
    Signed(draw.zn < 0,
           FDiv(FromInt(IF draw.zn < 0 THEN -draw.zn ELSE draw.zn), FromInt(draw.zd)))

RandomOf(draw) == FDiv(FromInt(draw.rn), FromInt(draw.rd))

\* Variant: a standard deviation of 0 is replaced by 1 (z * (std || 1) + mean).
generateBoxMullerUnitStd(mean, std, z) ==
    SAdd(SMul(z, Signed(FALSE, IF std = FZero THEN FromInt(1) ELSE std)),
         Signed(FALSE, mean))

\* generateBoxMuller(mean, std) = z * std + mean, for the deviate z.
generateBoxMuller(mean, std, z) ==
    SAdd(SMul(z, Signed(FALSE, std)), Signed(FALSE, mean))

\* generateBoxMuller(mean, std) of line 285 with the deviate of the draw.
BoxMullerValue(validVals, mean, draw) ==
    generateBoxMuller(mean, StdOf(validVals, mean), Deviate(draw))

\* Variant: the jitter is not centred (Math.random() * 5).
InterpolateUncentred(prev, next, draw) ==
    SAdd(Signed(FALSE, FDiv(FromInt(prev + next), FromInt(2))),
         SMul(Signed(FALSE, RandomOf(draw)), Signed(FALSE, FromInt(5))))

\* (prev + next) / 2 + (Math.random() - 0.5) * 5
Interpolate(prev, next, draw) ==
    SAdd(Signed(FALSE, FDiv(FromInt(prev + next), FromInt(2))),
         SMul(SSub(RandomOf(draw), FDiv(FromInt(1), FromInt(2))),
              Signed(FALSE, FromInt(5))))

\* subjects.find(s => s.id !== sub.id && newData[time.id][s.id] !== null):
\* the index of the first such subject, 0 when there is none.
FindRefSub(newData, timeId, subId, subs) ==
    LET found == { i \in 1..Len(subs) :
                     subs[i].id # subId /\ newData[timeId][subs[i].id] # Null }
    IN  IF found = {} THEN 0 ELSE CHOOSE i \in found : \A j \in found : i <= j

\* const refSub = subjects.find(... newData[time.id][s.id] !== null): the
\* working copy is searched, not student.data.
RefSubFor(student, newData, timeId, subId, subs) ==
    FindRefSub(newData, timeId, subId, subs)

\* Lines 241-244: refVal * (mean / (refMean || 1)), where refMean is the sum of
\* the cohort's present reference values divided by students.length.
Proportional(refVal, mean, refMean) ==
    FMul(refVal, FDiv(mean, IF refMean = FZero THEN FromInt(1) ELSE refMean))

RegressionValue(cohort, newData, timeId, refSubId, validVals) ==
    Proportional(FromInt(newData[timeId][refSubId]),
                 MeanOf(validVals),
                 FDiv(FromInt(SumSeq(ValidVals(cohort, timeId, refSubId))),
                      FromInt(Len(cohort))))

\* The squared distance and the number of shared subjects (lines 260-271).
KnnDist(newData, other, timeId, subId, subs) ==
    LET shared == { i \in 1..Len(subs) :
                      /\ subs[i].id # subId
                      /\ newData[timeId][subs[i].id] # Null
                      /\ other.data[timeId][subs[i].id] # Null }
        sq == [i \in 1..Len(subs) |->
                 IF i \in shared
                 THEN (newData[timeId][subs[i].id] - other.data[timeId][subs[i].id])
                      * (newData[timeId][subs[i].id] - other.data[timeId][subs[i].id])
                 ELSE 0]
    IN  [dist2 |-> SumSeq(sq), count |-> Cardinality(shared)]

\* if (dist < minDist), minDist = Infinity held as -1; distances are compared
\* by their squares.
KnnCloser(d2, minDist2) == minDist2 = -1 \/ d2 < minDist2

\* students.forEach(other => ...) from student o on; best is [minDist2, val].
RECURSIVE KnnScan(_, _, _, _, _, _, _, _)
KnnScan(cohort, o, student, newData, timeId, subId, subs, best) ==
    IF o > Len(cohort) THEN best
    ELSE LET other == cohort[o]
             d == KnnDist(newData, other, timeId, subId, subs)
             take == /\ other.id # student.id
                     /\ other.data[timeId][subId] # Null
                     /\ d.count > 0
                     /\ KnnCloser(d.dist2, best.minDist2)
         IN  KnnScan(cohort, o + 1, student, newData, timeId, subId, subs,
                     IF take
                     THEN [minDist2 |-> d.dist2,
                           val |-> Signed(FALSE, FromInt(other.data[timeId][subId]))]
                     ELSE best)

KnnValue(cohort, student, newData, timeId, subId, subs, validVals) ==
    KnnScan(cohort, 1, student, newData, timeId, subId, subs,
            [minDist2 |-> -1, val |-> Signed(FALSE, MeanOf(validVals))]).val

\* Variant: the gap type is computed on the working copy.
ClassifyOnWorkingCopy(student, newData, tIdx, subId, tSlots) ==
    analyzeMissingType(newData, tIdx, subId, tSlots)

\* let missingType = analyzeMissingType(student.data, tIdx, sub.id, timeSlots)
ClassifyForRun(student, newData, tIdx, subId, tSlots) ==
    analyzeMissingType(student.data, tIdx, subId, tSlots)

\* Variant: the gap type recorded is the one computed, whatever the method.
ImputeCellKeepsType(cohort, student, newData, tSlots, subs, alg, tIdx, si, draw) ==
    LET time == tSlots[tIdx]
        sub == subs[si]
        cls == ClassifyForRun(student, newData, tIdx, sub.id, tSlots)
        prev == IF tIdx > 1 THEN newData[tSlots[tIdx - 1].id][sub.id] ELSE Null
        next == IF tIdx < Len(tSlots) THEN newData[tSlots[tIdx + 1].id][sub.id] ELSE Null
        interpolated == cls = "discrete" /\ prev # Null /\ next # Null
        validVals == ValidVals(cohort, time.id, sub.id)
        refSub == RefSubFor(student, newData, time.id, sub.id, subs)
        imputedVal ==
            IF interpolated THEN Interpolate(prev, next, draw)
            ELSE IF alg = "regression"
                 THEN Signed(FALSE,
                             IF refSub # 0
                             THEN RegressionValue(cohort, newData, time.id,
                                                  subs[refSub].id, validVals)
                             ELSE MeanOf(validVals))
            ELSE IF alg = "knn"
                 THEN KnnValue(cohort, student, newData, time.id, sub.id, subs, validVals)
            ELSE BoxMullerValue(validVals, MeanOf(validVals), draw)
    IN  [val |-> RoundClamp(imputedVal, sub.full),
         type |-> cls,
         method |-> IF interpolated THEN "interpolation"
                    ELSE IF alg = "regression"
                         THEN IF refSub # 0 THEN "regression" ELSE "mean-fill"
                    ELSE IF alg = "knn" THEN "knn"
                    ELSE "box-muller",
         ref |-> IF ~interpolated /\ alg = "regression" /\ refSub # 0
                 THEN subs[refSub].id ELSE 0,
         cls |-> cls,
         drawn |-> interpolated \/ alg \notin {"regression", "knn"}]

\* Lines 207-294 for one cell that is not 'none': the value written, the type
\* and method recorded, and whether a draw was consumed.
ImputeCell(cohort, student, newData, tSlots, subs, alg, tIdx, si, draw) ==
    LET time == tSlots[tIdx]
        sub == subs[si]
        cls == ClassifyForRun(student, newData, tIdx, sub.id, tSlots)
        prev == IF tIdx > 1 THEN newData[tSlots[tIdx - 1].id][sub.id] ELSE Null
        next == IF tIdx < Len(tSlots) THEN newData[tSlots[tIdx + 1].id][sub.id] ELSE Null
        interpolated == cls = "discrete" /\ prev # Null /\ next # Null
        validVals == ValidVals(cohort, time.id, sub.id)
        refSub == RefSubFor(student, newData, time.id, sub.id, subs)
        imputedVal ==
            IF interpolated THEN Interpolate(prev, next, draw)
            ELSE IF alg = "regression"
                 THEN Signed(FALSE,
                             IF refSub # 0
                             THEN RegressionValue(cohort, newData, time.id,
                                                  subs[refSub].id, validVals)
                             ELSE MeanOf(validVals))
            ELSE IF alg = "knn"
                 THEN KnnValue(cohort, student, newData, time.id, sub.id, subs, validVals)
            ELSE BoxMullerValue(validVals, MeanOf(validVals), draw)
    IN  [val |-> RoundClamp(imputedVal, sub.full),
         type |-> IF cls = "discrete" /\ ~interpolated THEN "continuous" ELSE cls,
         method |-> IF interpolated THEN "interpolation"
                    ELSE IF alg = "regression"
                         THEN IF refSub # 0 THEN "regression" ELSE "mean-fill"
                    ELSE IF alg = "knn" THEN "knn"
                    ELSE "box-muller",
         ref |-> IF ~interpolated /\ alg = "regression" /\ refSub # 0
                 THEN subs[refSub].id ELSE 0,
         cls |-> cls,
         drawn |-> interpolated \/ alg \notin {"regression", "knn"}]

\* The cells of a student from the c-th on, time slots outer, subjects inner.
\* acc is [data, details, logs, trace, k]: the working copy newData, newDetails,
\* the log lines, the gap type computed for every cell, and the draws used.
\* acc after a present cell: nothing is written.
SkipCell(acc, student, time, sub) ==
    [acc EXCEPT !.trace = Append(@,
        [student |-> student.id, time |-> time.id, sub |-> sub.id,
         cls |-> "none", drawn |-> FALSE, draw |-> 0])]

\* acc after lines 293-295 for an absent cell resolved as r.
WriteCell(acc, student, time, sub, draw, r) ==
    [data |-> [acc.data EXCEPT ![time.id][sub.id] = r.val],
     details |-> (<<time.id, sub.id>> :>
                     [val |-> r.val, type |-> r.type,
                      method |-> r.method, ref |-> r.ref])
                 @@ acc.details,
     logs |-> Append(acc.logs,
                [student |-> student.id, sub |-> sub.id,
                 method |-> r.method, ref |-> r.ref, val |-> r.val]),
     trace |-> Append(acc.trace,
                [student |-> student.id, time |-> time.id, sub |-> sub.id,
                 cls |-> r.cls, drawn |-> r.drawn,
                 draw |-> IF r.drawn THEN draw ELSE 0]),
     k |-> IF r.drawn THEN acc.k + 1 ELSE acc.k]

\* Lines 207-296 for the cell (tIdx, si) of a student.
ImputeStep(cohort, student, tSlots, subs, alg, tape, acc, tIdx, si) ==
    IF ClassifyForRun(student, acc.data, tIdx, subs[si].id, tSlots) = "none"
    THEN SkipCell(acc, student, tSlots[tIdx], subs[si])
    ELSE WriteCell(acc, student, tSlots[tIdx], subs[si], tape[acc.k + 1],
                   ImputeCell(cohort, student, acc.data, tSlots, subs, alg,
                              tIdx, si, tape[acc.k + 1]))

RECURSIVE ImputeCells(_, _, _, _, _, _, _, _)
ImputeCells(cohort, student, tSlots, subs, alg, tape, c, acc) ==
    IF c > Len(tSlots) * Len(subs) THEN acc
    ELSE ImputeCells(cohort, student, tSlots, subs, alg, tape, c + 1,
             ImputeStep(cohort, student, tSlots, subs, alg, tape, acc,
                        ((c - 1) \div Len(subs)) + 1, ((c - 1) % Len(subs)) + 1))

\* Variant: newDetails is one object shared by the students of the pass.
\* out after a student: the record of line 300 and what the pass carries on.
StudentDone(out, student, acc) ==
    [newStudents |-> Append(out.newStudents,
                       [student EXCEPT !.data = acc.data,
                                       !.imputedDetails = acc.details]),
     logs |-> acc.logs, trace |-> acc.trace, k |-> acc.k]

RECURSIVE ImputeStudentsSharedDetails(_, _, _, _, _, _, _)
ImputeStudentsSharedDetails(cohort, tSlots, subs, alg, tape, i, out) ==
    IF i > Len(cohort) THEN out
    ELSE ImputeStudentsSharedDetails(cohort, tSlots, subs, alg, tape, i + 1,
             StudentDone(out, cohort[i],
                 ImputeCells(cohort, cohort[i], tSlots, subs, alg, tape, 1,
                     [data |-> cohort[i].data,
                      details |-> IF i = 1 THEN <<>>
                                  ELSE out.newStudents[i - 1].imputedDetails,
                      logs |-> out.logs, trace |-> out.trace, k |-> out.k])))

\* students.map(student => ...) from the i-th student on.
RECURSIVE ImputeStudents(_, _, _, _, _, _, _)
ImputeStudents(cohort, tSlots, subs, alg, tape, i, out) ==
    IF i > Len(cohort) THEN out
    ELSE ImputeStudents(cohort, tSlots, subs, alg, tape, i + 1,
             StudentDone(out, cohort[i],
                 ImputeCells(cohort, cohort[i], tSlots, subs, alg, tape, 1,
                     [data |-> cohort[i].data, details |-> <<>>,
                      logs |-> out.logs, trace |-> out.trace, k |-> out.k])))

\* The pass of lines 197-301: newStudents, logs, and the trace.
ImputeCohort(cohort, tSlots, subs, alg, tape) ==
    ImputeStudents(cohort, tSlots, subs, alg, tape, 1,
        [newStudents |-> <<>>, logs |-> <<[start |-> alg]>>, trace |-> <<>>, k |-> 0])

\* The number of null cells of a cohort.
NullCells(cohort, tSlots, subs) ==
    Cardinality({ x \in (1..Len(cohort)) \X (1..Len(tSlots)) \X (1..Len(subs)) :
                    cohort[x[1]].data[tSlots[x[2]].id][subs[x[3]].id] = Null })

\* The number of draws a pass takes.  Which cells draw depends on the cohort and
\* the algorithm, not on the values drawn, so any tape counts them.
DrawsTaken(cohort, tSlots, subs, alg) ==
    ImputeCohort(cohort, tSlots, subs, alg,
                 [k \in 1..NullCells(cohort, tSlots, subs) |->
                     [rn |-> 0, rd |-> 1, zn |-> 0, zd |-> 1]]).k

(***************************************************************************)
(* Specification SpecClassify: analyzeMissingType applied to one student   *)
(* matrix of 1..MaxSlots time slots and one subject.                       *)
(***************************************************************************)
Idle == [fn |-> "idle"]

SeriesData(n) ==
    { [t \in 1..n |-> [s \in {1} |-> ser[t]]] : ser \in [1..n -> {Null, 80}] }

InitClassify ==
    /\ \E n \in 1..MaxSlots :
          /\ timeSlots = DefaultTimeSlots(n)
          /\ \E d \in SeriesData(n) : students = <<MkStudent(1, d)>>
    /\ subjects = DefaultSubjects(1)
    /\ algorithm = "box-muller"
    /\ isCalculated = FALSE
    /\ isAnimating = FALSE
    /\ imputationLog = <<>>
    /\ timers = <<>>
    /\ rescorePending = FALSE
    /\ call = Idle

Classify ==
    /\ call.fn = "idle"
    /\ \E timeIdx \in 1..Len(timeSlots) :
          call' = [fn |-> "analyzeMissingType", timeIdx |-> timeIdx, subId |-> 1,
                   result |-> analyzeMissingType(students[1].data, timeIdx, 1, timeSlots)]
    /\ UNCHANGED <<students, timeSlots, subjects, algorithm, isCalculated,
                   isAnimating, imputationLog, timers, rescorePending>>

NextClassify == Classify

SpecClassify == InitClassify /\ [][NextClassify]_vars

(***************************************************************************)
(* Specification SpecCorr: calculateCorrelation applied to a cohort of     *)
(* 1..MaxCorrStudents students with one time slot and two subjects.        *)
(***************************************************************************)
\* Every matrix of nt time slots and ns subjects with cells from vals.
Matrices(nt, ns, vals) == [1..nt -> [1..ns -> vals]]

\* Every cohort of n students, as loadData builds them from raw data.
Cohorts(n, nt, ns, vals) ==
    { [i \in 1..n |-> MkStudent(i, raw[i])] : raw \in [1..n -> Matrices(nt, ns, vals)] }

InitCorr ==
    /\ \E n \in 1..MaxCorrStudents : students \in Cohorts(n, 1, 2, {Null, 80, 90})
    /\ timeSlots = DefaultTimeSlots(1)
    /\ subjects = DefaultSubjects(2)
    /\ algorithm = "box-muller"
    /\ isCalculated = FALSE
    /\ isAnimating = FALSE
    /\ imputationLog = <<>>
    /\ timers = <<>>
    /\ rescorePending = FALSE
    /\ call = Idle

Correlate ==
    /\ call.fn = "idle"
    /\ \E subA \in 1..2, subB \in 1..2 :
          /\ subA # subB
          /\ call' = [fn |-> "calculateCorrelation", subA |-> subA, subB |-> subB,
                      timeId |-> 1,
                      result |-> calculateCorrelation(students, subA, subB, 1)]
    /\ UNCHANGED <<students, timeSlots, subjects, algorithm, isCalculated,
                   isAnimating, imputationLog, timers, rescorePending>>

NextCorr == Correlate

SpecCorr == InitCorr /\ [][NextCorr]_vars

(***************************************************************************)
(* Specification SpecScore: recalcScores applied to a cohort of            *)
(* 1..MaxScoreStudents students under default and slider-changed weights.  *)
(***************************************************************************)
\* newSlots[idx].weight = parseFloat(e.target.value)
WithWeight(list, idx, w) ==
    [list EXCEPT ![idx].weight = w, ![idx].double = WeightOf(w)]

ScoreShapes == {<<1, 2>>, <<2, 1>>}     \* <<time slots, subjects>>
ScoreTimeWeights == {10, 0, 50}         \* slider range 0..0.5
ScoreSubjectWeights == {14, 0, 30}      \* slider range 0..0.3

\* Two students over two time slots and one subject whose weighted sums under
\* the weights 0.10, 0.15 and 0.10 are both 1.85 as reals; the doubles differ.
RawRoundingTie == << <<<<80>>, <<70>>>>, <<<<41>>, <<96>>>> >>

InitScore ==
    /\ \/ \E shape \in ScoreShapes, n \in 1..MaxScoreStudents :
             /\ students \in Cohorts(n, shape[1], shape[2], {Null, 0, 90})
             /\ \E w \in ScoreTimeWeights :
                   timeSlots = WithWeight(DefaultTimeSlots(shape[1]), 1, w)
             /\ \E w \in ScoreSubjectWeights :
                   subjects = WithWeight(DefaultSubjects(shape[2]), 1, w)
       \/ /\ students = [i \in 1..2 |-> MkStudent(i, RawRoundingTie[i])]
          /\ timeSlots = DefaultTimeSlots(2)
          /\ subjects = SubSubjects(1)
    /\ algorithm = "box-muller"
    /\ isCalculated = FALSE
    /\ isAnimating = FALSE
    /\ imputationLog = <<>>
    /\ timers = <<>>
    /\ rescorePending = FALSE
    /\ call = Idle

Score ==
    /\ call.fn = "idle"
    /\ call' = [fn |-> "recalcScores", arg |-> students,
                result |-> recalcScores(students, timeSlots, subjects)]
    /\ UNCHANGED <<students, timeSlots, subjects, algorithm, isCalculated,
                   isAnimating, imputationLog, timers, rescorePending>>

NextScore == Score

SpecScore == InitScore /\ [][NextScore]_vars

(***************************************************************************)
(* The run button and the setTimeout callback of handleRunAlgorithm.       *)
(***************************************************************************)
\* The outcomes of the random source offered to a pass: Math.random() at 0, 1/2
\* and 15/16, and deviates from -8 to 8 (|z| < 8.6 for a 53-bit uniform draw).
Draws ==
    { [rn |-> 0, rd |-> 16, zn |-> -8, zd |-> 1],
      [rn |-> 8, rd |-> 16, zn |-> 0, zd |-> 1],
      [rn |-> 15, rd |-> 16, zn |-> 8, zd |-> 1] }

\* Variant: the update of the effect leaves the cohort as it is.
RescoreUpdateNone(prev, tSlots, subs) == prev

\* The update queued by the effect (line 188): prev => recalcScores(prev,
\* timeSlots, subjects).  The slot and subject objects of the effect's closure
\* are the ones every later render holds, so the weights are read as they are
\* when the update is rendered.
RescoreUpdate(prev, tSlots, subs) == recalcScores(prev, tSlots, subs)

\* The cohort that the next render starts from.  The update of the effect is
\* queued at the default priority and rendered in a task of its own; the
\* updates of a handler or callback that runs before that task are rendered
\* together with it, the effect's update first.
Rendered(tSlots, subs) ==
    IF rescorePending THEN RescoreUpdate(students, tSlots, subs) ELSE students

\* Variant: the run button is not disabled while a run is in flight.
HandleRunAlgorithmWhileAnimating ==
    /\ ~isCalculated
    /\ isAnimating' = TRUE
    /\ imputationLog' = <<>>
    /\ timers' = Append(timers, [students |-> students, algorithm |-> algorithm])
    /\ students' = Rendered(timeSlots, subjects)
    /\ rescorePending' = FALSE
    /\ UNCHANGED <<timeSlots, subjects, algorithm, isCalculated, call>>

\* onClick of the run button while it shows the run label (lines 194-200, 383-384):
\* the callback closes over the students and the algorithm of this render.  The
\* time-slot and subject objects are shared with every later render, so the
\* callback reads their weights as they are when it runs.
HandleRunAlgorithm ==
    /\ ~isAnimating
    /\ ~isCalculated
    /\ isAnimating' = TRUE
    /\ imputationLog' = <<>>
    /\ timers' = Append(timers, [students |-> students, algorithm |-> algorithm])
    /\ students' = Rendered(timeSlots, subjects)
    /\ rescorePending' = FALSE
    /\ UNCHANGED <<timeSlots, subjects, algorithm, isCalculated, call>>

\* Lines 303-306: the pass run of the closure is scored under the weights in
\* state and stored with its log; setStudents(finalStudents) replaces the
\* cohort, whatever update was queued before it.
Publish(closure, run) ==
    /\ students' = recalcScores(run.newStudents, timeSlots, subjects)
    /\ imputationLog' = run.logs
    /\ rescorePending' = FALSE
    /\ call' = [fn |-> "handleRunAlgorithm",
                students |-> closure.students,
                algorithm |-> closure.algorithm,
                newStudents |-> run.newStudents,
                trace |-> run.trace]

\* Variant: the cohort and the log are published, the flags are left for later.
TimerCallbackCohortFirst ==
    /\ timers # <<>>
    /\ \E tape \in [1..DrawsTaken(Head(timers).students, timeSlots, subjects,
                                    Head(timers).algorithm) -> Draws] :
          Publish(Head(timers),
                  ImputeCohort(Head(timers).students, timeSlots, subjects,
                               Head(timers).algorithm, tape))
    /\ timers' = Tail(timers)
    /\ UNCHANGED <<timeSlots, subjects, algorithm, isCalculated, isAnimating>>

\* The callback of setTimeout (lines 200-309).
TimerCallback ==
    /\ timers # <<>>
    /\ \E tape \in [1..DrawsTaken(Head(timers).students, timeSlots, subjects,
                                    Head(timers).algorithm) -> Draws] :
          Publish(Head(timers),
                  ImputeCohort(Head(timers).students, timeSlots, subjects,
                               Head(timers).algorithm, tape))
    /\ isCalculated' = TRUE
    /\ isAnimating' = FALSE
    /\ timers' = Tail(timers)
    /\ UNCHANGED <<timeSlots, subjects, algorithm>>

(***************************************************************************)
(* Specification SpecRun: one imputation pass over a loaded cohort with at *)
(* most MaxAbsent null cells, under each algorithm.                        *)
(***************************************************************************)
\* Every way to make cells of a full raw data set null.
Punched(raw) ==
    { [i \in DOMAIN raw |-> [t \in DOMAIN raw[i] |-> [sb \in DOMAIN raw[i][t] |->
          IF <<i, t, sb>> \in holes THEN Null ELSE raw[i][t][sb]]]] :
      holes \in SUBSET { <<i, t, sb>> : i \in DOMAIN raw, t \in DOMAIN raw[1],
                                        sb \in DOMAIN raw[1][1] } }

\* loadData: one student per key of the raw data, in key order.
Loaded(raw) == [i \in DOMAIN raw |-> MkStudent(i, raw[i])]

\* Two students, four time slots, one subject.
RawTemporal ==
    Punched(<< <<<<80>>, <<70>>, <<90>>, <<95>>>>, <<<<100>>, <<100>>, <<100>>, <<100>>>> >>)

\* Three students, one time slot, two subjects.
RawCross == [1..3 -> Matrices(1, 2, {Null, 10, 90})]

\* Two students, one time slot, two subjects, with scores of 0.
RawZero == [1..2 -> Matrices(1, 2, {Null, 0, 90})]

\* Three students, one time slot, two subjects: the regression of the first
\* student's cell is 13.5 as a real and less as a double.
RawRounding == { << <<<<Null, 10>>>>, <<<<0, 90>>>>, <<<<90, Null>>>> >> }

\* Eleven students, one time slot, one subject: the first student's cell is
\* absent, the mean of the others is 4.1 and their standard deviation 0.3 as
\* reals; with the deviate 8 the Box-Muller value is 6.5 as a real and less as
\* a double.
RawHalfway ==
    { [i \in 1..11 |-> <<<<IF i = 1 THEN Null ELSE IF i = 2 THEN 5 ELSE 4>>>>] }

\* One student, three time slots, two subjects.
RawSingle == Punched(<< <<<<80, 60>>, <<70, 90>>, <<90, 75>>>> >>)

RunInputs ==
    { [cohort |-> Loaded(r), nt |-> 4, ns |-> 1] : r \in RawTemporal }
        \cup { [cohort |-> Loaded(r), nt |-> 1, ns |-> 2] : r \in RawCross \cup RawZero \cup RawRounding }
        \cup { [cohort |-> Loaded(r), nt |-> 3, ns |-> 2] : r \in RawSingle }
        \cup { [cohort |-> Loaded(r), nt |-> 1, ns |-> 1] : r \in RawHalfway }

InitRun ==
    /\ \E inp \in RunInputs :
          /\ timeSlots = DefaultTimeSlots(inp.nt)
          /\ subjects = SubSubjects(inp.ns)
          /\ students = inp.cohort
          /\ NullCells(students, timeSlots, subjects) <= MaxAbsent
    /\ algorithm \in AlgorithmType
    /\ isCalculated = FALSE
    /\ isAnimating = FALSE
    /\ imputationLog = <<>>
    /\ timers = <<>>
    /\ rescorePending = FALSE
    /\ call = Idle

NextRun == HandleRunAlgorithm \/ TimerCallback

SpecRun == InitRun /\ [][NextRun]_vars

(***************************************************************************)
(* Specification Spec: the component.  Init is the state after the mount   *)
(* effect has loaded generated data; the cohorts are small stand-ins for   *)
(* generateMockData's random ones.                                         *)
(***************************************************************************)
\* Two students, two time slots, one subject: complete, with one score of the
\* first student missing, or complete with weighted sums that are equal as
\* reals under the default weights and differ as doubles.
RawData ==
    { << <<<<80>>, <<70>>>>, <<<<100>>, <<60>>>> >>,
      << <<<<Null>>, <<70>>>>, <<<<100>>, <<60>>>> >>,
      RawRoundingTie }

SliderTimeWeights == {50}           \* a value taken from the slider's 0..0.5
SliderSubjectWeights == {30}        \* a value taken from the slider's 0..0.3

\* loadData (lines 153-164): the result of recalcScores is dropped, the
\* students are stored unsorted with finalScore 0.  setStudents(initStudents)
\* replaces the cohort, whatever update was queued before it.
LoadData(raw) ==
    /\ students' = Loaded(raw)
    /\ isCalculated' = FALSE
    /\ rescorePending' = FALSE

Init ==
    /\ timeSlots = DefaultTimeSlots(2)
    /\ subjects = SubSubjects(1)
    /\ \E raw \in RawData : students = Loaded(raw)
    /\ algorithm = "box-muller"
    /\ isCalculated = FALSE
    /\ isAnimating = FALSE
    /\ imputationLog = <<>>
    /\ timers = <<>>
    /\ rescorePending = FALSE
    /\ call = Idle

\* onClick of the run button while it shows the reset label (line 383).
Reset ==
    /\ ~isAnimating
    /\ isCalculated
    /\ \E raw \in RawData : LoadData(raw)
    /\ call' = [fn |-> "reset"]
    /\ UNCHANGED <<timeSlots, subjects, algorithm, isAnimating, imputationLog, timers>>

\* reader.onload of handleFileUpload (lines 318-327); the import button is
\* never disabled.
HandleFileUpload ==
    /\ \E raw \in RawData : LoadData(raw)
    /\ call' = [fn |-> "handleFileUpload"]
    /\ UNCHANGED <<timeSlots, subjects, algorithm, isAnimating, imputationLog, timers>>

\* The effect on [timeSlots, subjects] (lines 186-190) runs when the render of
\* a weight change has been committed: with a cohort in state it queues its
\* update.
EffectQueued(list) == Len(list) > 0

\* onChange of a time weight slider (lines 585-588): the weight of the slot is
\* set and the list stored; the commit leaves the cohort as the updates queued
\* before it make it, and the effect runs after it.
SetTimeWeight ==
    /\ \E idx \in 1..Len(timeSlots), w \in SliderTimeWeights :
          /\ timeSlots[idx].weight # w
          /\ timeSlots' = WithWeight(timeSlots, idx, w)
          /\ students' = Rendered(timeSlots', subjects)
    /\ rescorePending' = EffectQueued(students')
    /\ call' = [fn |-> "setTimeSlots"]
    /\ UNCHANGED <<subjects, algorithm, isCalculated, isAnimating, imputationLog, timers>>

\* onChange of a subject weight slider (lines 612-615), likewise.
SetSubjectWeight ==
    /\ \E idx \in 1..Len(subjects), w \in SliderSubjectWeights :
          /\ subjects[idx].weight # w
          /\ subjects' = WithWeight(subjects, idx, w)
          /\ students' = Rendered(timeSlots, subjects')
    /\ rescorePending' = EffectQueued(students')
    /\ call' = [fn |-> "setSubjects"]
    /\ UNCHANGED <<timeSlots, algorithm, isCalculated, isAnimating, imputationLog, timers>>

\* The render of the update queued by the effect (line 188), in a task of its
\* own after the commit of the weight change.
RescoreEffect ==
    /\ rescorePending
    /\ students' = Rendered(timeSlots, subjects)
    /\ rescorePending' = FALSE
    /\ call' = [fn |-> "rescoreEffect"]
    /\ UNCHANGED <<timeSlots, subjects, algorithm, isCalculated, isAnimating,
                   imputationLog, timers>>

\* onClick of an algorithm button (lines 364-366).
SetAlgorithm ==
    /\ ~isCalculated
    /\ \E algo \in AlgorithmType :
          /\ algo # algorithm
          /\ algorithm' = algo
    /\ students' = Rendered(timeSlots, subjects)
    /\ rescorePending' = FALSE
    /\ call' = [fn |-> "setAlgorithm"]
    /\ UNCHANGED <<timeSlots, subjects, isCalculated, isAnimating, imputationLog, timers>>

Next ==
    \/ Reset
    \/ HandleFileUpload
    \/ SetTimeWeight
    \/ SetSubjectWeight
    \/ RescoreEffect
    \/ SetAlgorithm
    \/ HandleRunAlgorithm
    \/ TimerCallback

Spec == Init /\ [][Next]_vars

(***************************************************************************)
(* Claims about analyzeMissingType (checked under SpecClassify).           *)
(***************************************************************************)
\* The gap of a cell: the maximal run of consecutive null cells of the subject
\* that contains the time index (empty when the cell is present).
GapOf(studentData, timeIdx, subId, tSlots) ==
    { i \in 1..Len(tSlots) :
        \A k \in 1..Len(tSlots) :
            ((i <= k /\ k <= timeIdx) \/ (timeIdx <= k /\ k <= i))
                => studentData[tSlots[k].id][subId] = Null }

Classified == call.fn = "analyzeMissingType"
ClsData == students[1].data
ClsGap == GapOf(ClsData, call.timeIdx, call.subId, timeSlots)
ClsPresent == ClsData[timeSlots[call.timeIdx].id][call.subId] # Null

\* C2 as stated: none if the cell is present; otherwise discrete exactly when
\* the gap has length <= 2 and the gap contains neither the first nor the last
\* time slot; otherwise continuous.
C2_Original ==
    Classified =>
        call.result =
            IF ClsPresent THEN "none"
            ELSE IF /\ Cardinality(ClsGap) <= 2
                    /\ 1 \notin ClsGap
                    /\ Len(timeSlots) \notin ClsGap
                 THEN "discrete"
                 ELSE "continuous"

\* C2 amended: none if the cell is present; otherwise discrete exactly when the
\* gap has length <= 2 and the time index itself is neither the first nor the
\* last time slot; otherwise continuous.
C2_Amended ==
    Classified =>
        call.result =
            IF ClsPresent THEN "none"
            ELSE IF /\ Cardinality(ClsGap) <= 2
                    /\ call.timeIdx # 1
                    /\ call.timeIdx # Len(timeSlots)
                 THEN "discrete"
                 ELSE "continuous"

\* C2 witness: the second cell of a gap made of the first two time slots is
\* classified discrete.
C2_Witness ==
    /\ Classified
    /\ Len(timeSlots) >= 4
    /\ call.timeIdx = 2
    /\ ClsGap = {1, 2}
    /\ call.result = "discrete"

\* C3: an absent cell at the first or the last time slot is classified
\* continuous, whatever the length of its gap.
C3_EdgeContinuous ==
    (Classified /\ ~ClsPresent /\ call.timeIdx \in {1, Len(timeSlots)})
        => call.result = "continuous"

\* C3 witness: a gap of length 1 at the last of several time slots, classified
\* continuous.
C3_Witness ==
    /\ Classified
    /\ Len(timeSlots) >= 3
    /\ call.timeIdx = Len(timeSlots)
    /\ ClsGap = {Len(timeSlots)}
    /\ call.result = "continuous"

(***************************************************************************)
(* Claims about calculateCorrelation (checked under SpecCorr).             *)
(***************************************************************************)
Correlated == call.fn = "calculateCorrelation"

\* The students that have both subjects of the call present at its time slot.
CorrBoth ==
    { i \in 1..Len(students) :
        /\ students[i].data[call.timeId][call.subA] # Null
        /\ students[i].data[call.timeId][call.subB] # Null }

CorrIdentical ==
    \A i \in CorrBoth :
        students[i].data[call.timeId][call.subA] = students[i].data[call.timeId][call.subB]

CorrConstant ==
    \A i, j \in CorrBoth :
        students[i].data[call.timeId][call.subA] = students[j].data[call.timeId][call.subA]

\* C9 as stated: the correlation is exactly 0 when fewer than 3 students have
\* both subjects present, and is 1 when the two series are identical across at
\* least 3 students having both present.
C9_Original ==
    Correlated =>
        /\ Cardinality(CorrBoth) < 3 => call.result = CorrZero
        /\ (Cardinality(CorrBoth) >= 3 /\ CorrIdentical) => call.result = CorrOne

\* C9 amended: the correlation is exactly 0 when fewer than 3 students have
\* both subjects present; for two series identical across at least 3 students
\* having both present it is 1 when those scores are not all equal, and 0 when
\* they are all equal (zero variance).
C9_Amended ==
    Correlated =>
        /\ Cardinality(CorrBoth) < 3 => call.result = CorrZero
        /\ (Cardinality(CorrBoth) >= 3 /\ CorrIdentical /\ ~CorrConstant)
               => call.result = CorrOne
        /\ (Cardinality(CorrBoth) >= 3 /\ CorrIdentical /\ CorrConstant)
               => call.result = CorrZero

\* C9 witness: three students with both subjects present, identical series that
\* are not constant, and a fourth student without the pair; the result is 1.
C9_Witness ==
    /\ Correlated
    /\ Len(students) = 4
    /\ Cardinality(CorrBoth) = 3
    /\ CorrIdentical
    /\ ~CorrConstant
    /\ call.result = CorrOne

(***************************************************************************)
(* Claims about recalcScores (checked under SpecScore).                    *)
(***************************************************************************)
Scored == call.fn = "recalcScores"

\* The sum of the function f over the finite set S.
RECURSIVE SumOver(_, _)
SumOver(S, f) ==
    IF S = {} THEN 0
    ELSE LET x == CHOOSE y \in S : TRUE IN f[x] + SumOver(S \ {x}, f)

\* Sum over time slots of slot.weight * (sum over subjects of cell * subject.weight),
\* an absent cell counted as 0; in units of 1/10000.
ExpectedScore(s, tSlots, subs) ==
    LET cell(ti, si) == s.data[tSlots[ti].id][subs[si].id]
        slotSum(ti) ==
            SumOver(1..Len(subs),
                    [si \in 1..Len(subs) |->
                        IF cell(ti, si) = Null THEN 0
                        ELSE cell(ti, si) * subs[si].weight])
    IN  SumOver(1..Len(tSlots),
                [ti \in 1..Len(tSlots) |-> tSlots[ti].weight * slotSum(ti)])

ExpectedFinalScore(s) == ExpectedScore(s, timeSlots, subjects)

\* |x - n / d| <= 2^-k, for a double x below 2^52, a natural n and 0 < d < 2^16.
FWithin(x, n, d, k) ==
    LET s == IF x = FZero THEN 0 ELSE -x.e
        a == BigMulSmall(x.m, d)
        b == BigShiftLeft(BigFromInt(n), s)
        diff == IF BigLess(a, b) THEN BigSub(b, a) ELSE BigSub(a, b)
    IN  ~BigLess(BigShiftLeft(BigFromInt(d), s), BigShiftLeft(diff, k))

\* The double x is the score n / 10000 up to the rounding of the arithmetic.
IsScore(x, n) == FWithin(x, n, 10000, 40)

\* The position of the student with the given id in a list.
PosOf(list, id) == CHOOSE i \in 1..Len(list) : list[i].id = id

\* C10: recalcScores returns exactly the input students, each with finalScore
\* the weighted sum of its matrix (absent cells as 0) up to the rounding of the
\* double arithmetic (within 2^-40), in non-increasing order of finalScore,
\* students of equal finalScore in their input order; the input list and the
\* matrices are left as they were.
C10_Scoring ==
    Scored =>
        LET inp == call.arg
            out == call.result
        IN  /\ Len(out) = Len(inp)
            /\ \A i \in 1..Len(inp) : \E j \in 1..Len(out) : out[j].id = inp[i].id
            /\ \A j \in 1..Len(out) :
                   /\ [out[j] EXCEPT !.finalScore = FZero] = inp[PosOf(inp, out[j].id)]
                   /\ IsScore(out[j].finalScore,
                              ExpectedFinalScore(inp[PosOf(inp, out[j].id)]))
            /\ \A j \in 1..Len(out) - 1 : ~FLess(out[j].finalScore, out[j + 1].finalScore)
            /\ \A j, k \in 1..Len(out) :
                   (j < k /\ out[j].finalScore = out[k].finalScore)
                       => PosOf(inp, out[j].id) < PosOf(inp, out[k].id)
            /\ students = inp
            /\ \A i \in 1..Len(students) : students[i].finalScore = FZero

\* C10 witness: three students, the result reordered, two of them tied on a
\* positive score in input order, and one ranked with an absent cell.
C10_Witness ==
    /\ Scored
    /\ Len(call.result) = 3
    /\ call.result[1].id = 2
    /\ call.result[1].finalScore = call.result[2].finalScore
    /\ call.result[1].finalScore # FZero
    /\ call.result[2].id = 3
    /\ call.result[3].id = 1
    /\ \E t \in 1..Len(timeSlots), sb \in 1..Len(subjects) :
          call.result[2].data[t][sb] = Null

(***************************************************************************)
(* Claims about the imputation pass (checked under SpecRun).  call holds   *)
(* the cohort the pass read, the algorithm, the cohort it produced (in the *)
(* order of the input) and, for every cell, the gap type computed for it   *)
(* and the draw it took.                                                   *)
(***************************************************************************)
Ran == call.fn = "handleRunAlgorithm"
RunCells == (1..Len(call.students)) \X (1..Len(timeSlots)) \X (1..Len(subjects))
InCell(i, t, sb) == call.students[i].data[timeSlots[t].id][subjects[sb].id]
OutCell(i, t, sb) == call.newStudents[i].data[timeSlots[t].id][subjects[sb].id]
DetailOf(i, t, sb) ==
    call.newStudents[i].imputedDetails[<<timeSlots[t].id, subjects[sb].id>>]

\* The trace entry of a cell.
TraceOf(i, t, sb) ==
    call.trace[CHOOSE n \in 1..Len(call.trace) :
                  /\ call.trace[n].student = call.students[i].id
                  /\ call.trace[n].time = timeSlots[t].id
                  /\ call.trace[n].sub = subjects[sb].id]

\* The cell (t, sb) of student i as the pass sees it when it is at cell
\* (t0, sb0) of that student: cells before (t0, sb0) in the order of the pass
\* (time slots outer, subjects inner) hold what the pass wrote.
WorkingCell(i, t, sb, t0, sb0) ==
    IF t < t0 \/ (t = t0 /\ sb < sb0) THEN OutCell(i, t, sb) ELSE InCell(i, t, sb)

\* The students with the cell (t, sb) present in the input of the pass.
HavePresent(t, sb) == { i \in 1..Len(call.students) : InCell(i, t, sb) # Null }

\* The sum of the input's present values for (t, sb).
CrossSum(t, sb) ==
    SumOver(HavePresent(t, sb), [i \in HavePresent(t, sb) |-> InCell(i, t, sb)])

\* The number of present values, 1 when there is none (mean of nothing is 0).
CrossCount(t, sb) ==
    IF HavePresent(t, sb) = {} THEN 1 ELSE Cardinality(HavePresent(t, sb))

\* num / den rounded to the nearest integer (halves up) and clamped to [0, full].
RoundedClamped(num, den, full) ==
    LET r == (2 * num + den) \div (2 * den)
    IN  IF r < 0 THEN 0 ELSE IF r > full THEN full ELSE r

\* The classification of a cell of the input of the pass, from its gap.
InputType(i, t, sb) ==
    LET gap == GapOf(call.students[i].data, t, subjects[sb].id, timeSlots)
    IN  IF InCell(i, t, sb) # Null THEN "none"
        ELSE IF Cardinality(gap) <= 2 /\ t # 1 /\ t # Len(timeSlots) THEN "discrete"
        ELSE "continuous"

\* C1: after an imputation pass every cell of the resulting cohort is present
\* and is an integer of [0, subject.full], under every algorithm and every draw.
C1_AllCellsFilled ==
    Ran =>
        /\ Len(students) = Len(call.students)
        /\ \A i \in 1..Len(students), t \in 1..Len(timeSlots), sb \in 1..Len(subjects) :
              /\ students[i].data[timeSlots[t].id][subjects[sb].id] # Null
              /\ students[i].data[timeSlots[t].id][subjects[sb].id] \in 0..subjects[sb].full

\* C1 witness: a Box-Muller pass that filled one null cell with 0 (clamped from
\* below) where the cohort's present values are positive, and another with the
\* full marks.
C1_Witness ==
    /\ Ran
    /\ call.algorithm = "box-muller"
    /\ \E x \in RunCells :
          /\ InCell(x[1], x[2], x[3]) = Null
          /\ OutCell(x[1], x[2], x[3]) = 0
          /\ CrossSum(x[2], x[3]) > 0
    /\ \E x \in RunCells :
          /\ InCell(x[1], x[2], x[3]) = Null
          /\ OutCell(x[1], x[2], x[3]) = subjects[x[3]].full

\* C4: the gap type computed for each cell during a pass is the classification
\* of that cell in the student's matrix as it was when the pass started.
C4_ClassifiedOnInput ==
    Ran =>
        /\ Len(call.trace) = Cardinality(RunCells)
        /\ \A x \in RunCells : TraceOf(x[1], x[2], x[3]).cls = InputType(x[1], x[2], x[3])

\* C4 witness: a gap of length 3; when its second cell is classified the first
\* has been filled, and what is left of the gap in the working copy is an
\* interior run of two, but the cell is classified continuous.
C4_Witness ==
    /\ Ran
    /\ \E x \in RunCells :
          /\ x[2] = 2
          /\ Len(timeSlots) = 4
          /\ GapOf(call.students[x[1]].data, 2, subjects[x[3]].id, timeSlots) = {1, 2, 3}
          /\ TraceOf(x[1], 2, x[3]).cls = "continuous"
          /\ DetailOf(x[1], 2, x[3]).method # "interpolation"
          /\ DetailOf(x[1], 3, x[3]).method # "interpolation"

\* The cells classified discrete whose two neighbours in time are present in the
\* working copy when the pass reaches them.
Interpolable ==
    { x \in RunCells :
        /\ TraceOf(x[1], x[2], x[3]).cls = "discrete"
        /\ WorkingCell(x[1], x[2] - 1, x[3], x[2], x[3]) # Null
        /\ WorkingCell(x[1], x[2] + 1, x[3], x[2], x[3]) # Null }

\* C5: a discrete cell with both neighbours present in the working copy is
\* written as round((prev + next) / 2 + j) clamped to [0, full], where j is the
\* jitter (r - 1/2) * 5 of the draw r in [0, 1) the cell took, so |j| <= 2.5; with
\* zero jitter the value is the rounded midpoint.
C5_Interpolation ==
    Ran =>
        \A x \in Interpolable :
            LET prev == WorkingCell(x[1], x[2] - 1, x[3], x[2], x[3])
                next == WorkingCell(x[1], x[2] + 1, x[3], x[2], x[3])
                e == TraceOf(x[1], x[2], x[3])
                full == subjects[x[3]].full
                v == OutCell(x[1], x[2], x[3])
            IN  /\ e.drawn
                /\ 0 <= e.draw.rn /\ e.draw.rn < e.draw.rd
                \* (prev + next)/2 + (rn/rd - 1/2) * 5
                /\ v = RoundedClamped((prev + next) * e.draw.rd + 10 * e.draw.rn - 5 * e.draw.rd,
                                      2 * e.draw.rd, full)
                /\ \E r \in ((prev + next - 4) \div 2)..((prev + next + 6) \div 2) :
                      v = IF r < 0 THEN 0 ELSE IF r > full THEN full ELSE r
                /\ 2 * e.draw.rn = e.draw.rd => v = RoundedClamped(prev + next, 2, full)
                /\ DetailOf(x[1], x[2], x[3]).method = "interpolation"

\* C5 witness: one cell between an 80 and a 90 of the input, with zero jitter,
\* written as 85; and a second cell of a gap whose previous neighbour was
\* filled earlier in the pass, interpolated with a jitter other than zero.
C5_Witness ==
    /\ Ran
    /\ \E x \in Interpolable :
          /\ InCell(x[1], x[2] - 1, x[3]) = 80
          /\ InCell(x[1], x[2] + 1, x[3]) = 90
          /\ 2 * TraceOf(x[1], x[2], x[3]).draw.rn = TraceOf(x[1], x[2], x[3]).draw.rd
          /\ OutCell(x[1], x[2], x[3]) = 85
    /\ \E x \in Interpolable :
          /\ InCell(x[1], x[2] - 1, x[3]) = Null
          /\ 2 * TraceOf(x[1], x[2], x[3]).draw.rn # TraceOf(x[1], x[2], x[3]).draw.rd

\* The cells a pass resolved by the algorithm (the continuous or fallback path).
ByAlgorithm ==
    { x \in RunCells :
        /\ InCell(x[1], x[2], x[3]) = Null
        /\ DetailOf(x[1], x[2], x[3]).method # "interpolation" }

\* C6 as stated: under regression, a cell of the continuous/fallback path with a
\* reference subject is written as referenceValue * (mean / referenceMean),
\* rounded and clamped, referenceMean being the mean of the cohort's present
\* values of the reference subject at the time slot, or 1 when that is 0.
C6_Original ==
    (Ran /\ call.algorithm = "regression") =>
        \A x \in ByAlgorithm :
            DetailOf(x[1], x[2], x[3]).method = "regression" =>
                LET ref == CHOOSE sb \in 1..Len(subjects) :
                               subjects[sb].id = DetailOf(x[1], x[2], x[3]).ref
                    refVal == WorkingCell(x[1], x[2], ref, x[2], x[3])
                    \* mean = CrossSum / CrossCount of the target,
                    \* referenceMean = CrossSum / CrossCount of the reference
                    num == refVal * CrossSum(x[2], x[3])
                           * (IF CrossSum(x[2], ref) = 0 THEN 1 ELSE CrossCount(x[2], ref))
                    den == CrossCount(x[2], x[3])
                           * (IF CrossSum(x[2], ref) = 0 THEN 1 ELSE CrossSum(x[2], ref))
                IN  OutCell(x[1], x[2], x[3]) = RoundedClamped(num, den, subjects[x[3]].full)

\* C7 as stated: under regression, a null cell of a student with no other
\* subject present at that time slot in the input, resolved by the
\* continuous/fallback path, is recorded as mean-fill and written as the
\* cohort's mean for the cell, rounded and clamped, wherever the subject stands
\* in the declared order.
C7_Original ==
    (Ran /\ call.algorithm = "regression") =>
        \A x \in ByAlgorithm :
            (\A sb \in 1..Len(subjects) : sb # x[3] => InCell(x[1], x[2], sb) = Null) =>
                /\ DetailOf(x[1], x[2], x[3]).method = "mean-fill"
                /\ OutCell(x[1], x[2], x[3]) =
                       RoundedClamped(CrossSum(x[2], x[3]), CrossCount(x[2], x[3]),
                                      subjects[x[3]].full)

\* The other subjects that student i and student o both have present at the
\* time slot in the input of the pass.
SharedWith(i, o, t, sb) ==
    { s2 \in 1..Len(subjects) :
        /\ s2 # sb
        /\ InCell(i, t, s2) # Null
        /\ InCell(o, t, s2) # Null }

\* The squared Euclidean distance over the shared subjects.
Dist2(i, o, t, sb) ==
    SumOver(SharedWith(i, o, t, sb),
            [s2 \in SharedWith(i, o, t, sb) |->
                (InCell(i, t, s2) - InCell(o, t, s2))
                * (InCell(i, t, s2) - InCell(o, t, s2))])

\* The other students that qualify as neighbours for cell (t, sb) of student i.
Qualified(i, t, sb) ==
    { o \in 1..Len(call.students) :
        /\ o # i
        /\ InCell(o, t, sb) # Null
        /\ SharedWith(i, o, t, sb) # {} }

\* C8 as stated: under nearest-neighbour, a cell of the continuous/fallback path
\* is written with the cell of the qualifying student (another student with the
\* cell present and at least one other subject present in both students'
\* records at the slot) at minimum Euclidean distance over the shared subjects,
\* the first in cohort order among equals; with no qualifying student it is
\* written with the cross-sectional mean, rounded and clamped.
C8_Original ==
    (Ran /\ call.algorithm = "knn") =>
        \A x \in ByAlgorithm :
            LET i == x[1]
                t == x[2]
                sb == x[3]
                cand == Qualified(i, t, sb)
                best == CHOOSE o \in cand :
                            \A o2 \in cand :
                                \/ Dist2(i, o, t, sb) < Dist2(i, o2, t, sb)
                                \/ Dist2(i, o, t, sb) = Dist2(i, o2, t, sb) /\ o <= o2
            IN  /\ DetailOf(i, t, sb).method = "knn"
                /\ cand = {} =>
                       OutCell(i, t, sb) =
                           RoundedClamped(CrossSum(t, sb), CrossCount(t, sb), subjects[sb].full)
                /\ cand # {} => OutCell(i, t, sb) = InCell(best, t, sb)

(***************************************************************************)
(* Claims about the component (checked under Spec).  call.fn names the     *)
(* last operation that changed the cohort, the weights or the algorithm.   *)
(***************************************************************************)
\* The operations the claim counts as performing a scoring pass.
ScoringPass ==
    call.fn \in {"reset", "handleFileUpload", "rescoreEffect", "handleRunAlgorithm"}

\* The list is in non-increasing order of finalScore.
OrderedList(list) ==
    \A j \in 1..Len(list) - 1 : ~FLess(list[j].finalScore, list[j + 1].finalScore)

\* Every finalScore of the list is the weighted sum of the student's matrix
\* under the given weights, up to the rounding of the double arithmetic.
ScoresOf(list, tSlots, subs) ==
    \A j \in 1..Len(list) :
        IsScore(list[j].finalScore, ExpectedScore(list[j], tSlots, subs))

\* The same of the cohort and the weights in state.
OrderedByScore == OrderedList(students)

ScoresCurrent == ScoresOf(students, timeSlots, subjects)

\* C11 as stated: after a data load or reset, a weight change or the completion
\* of an imputation run, the cohort in state is ordered non-increasing by
\* finalScore and each finalScore is the weighted sum of the student's current
\* matrix under the current weights (absent cells counted as 0).
C11_Original == ScoringPass => (OrderedByScore /\ ScoresCurrent)

\* C12: imputation runs are serialized.  In every reachable state at most one
\* delayed callback is pending, and one is pending exactly while isAnimating;
\* a step that starts a run (adds a pending callback) is taken only from a
\* state with no run in flight (isAnimating false, nothing pending) and the
\* cohort not yet imputed (isCalculated false).
C12_Serialized ==
    /\ [](Len(timers) <= 1 /\ (isAnimating <=> timers # <<>>))
    /\ [][Len(timers') > Len(timers)
             => (~isAnimating /\ ~isCalculated /\ timers = <<>>)]_vars

\* C12 witness: a run in flight during which a file was imported; isCalculated
\* is false, yet the one pending callback is still the only one.
C12_Witness ==
    /\ isAnimating
    /\ ~isCalculated
    /\ Len(timers) = 1
    /\ call.fn = "handleFileUpload"

\* Some cell of the cohort is null.
HasNull(list) ==
    \E j \in 1..Len(list), t \in 1..Len(timeSlots), sb \in 1..Len(subjects) :
        list[j].data[timeSlots[t].id][subjects[sb].id] = Null

\* No student of the cohort has an imputation detail.
NoDetails(list) == \A j \in 1..Len(list) : list[j].imputedDetails = <<>>

\* The number of imputation details of the cohort.
DetailCount(list) ==
    SumOver(1..Len(list), [j \in 1..Len(list) |-> Cardinality(DOMAIN list[j].imputedDetails)])

\* The students of the cohort without their scores and their order.
Records(list) ==
    { [id |-> list[j].id, data |-> list[j].data, imputedDetails |-> list[j].imputedDetails] :
        j \in 1..Len(list) }

\* C13: the result of a run is published atomically.  While a run is in flight
\* isCalculated is false, the log is empty and the cohort in state has no
\* imputation detail; a cohort with a cell written by a run is never in state
\* with a null cell or with isCalculated false.  A step taken in flight either
\* is a file import or leaves every matrix as it was, until the one step that
\* completes the run: there the cohort with every cell filled, the log (the
\* start line and one line per imputed cell), isCalculated = true and
\* isAnimating = false appear together; none of them appears in another step.
C13_Atomic ==
    /\ [](/\ isAnimating => (~isCalculated /\ imputationLog = <<>> /\ NoDetails(students))
          /\ ~NoDetails(students) => isCalculated
          /\ isCalculated => ~HasNull(students))
    /\ [][(isAnimating /\ isAnimating')
             => (Records(students') = Records(students) \/ call'.fn = "handleFileUpload")]_vars
    /\ [][(\/ isAnimating /\ ~isAnimating'
           \/ ~isCalculated /\ isCalculated'
           \/ imputationLog = <<>> /\ imputationLog' # <<>>
           \/ DetailCount(students') > DetailCount(students))
             => (/\ isAnimating /\ ~isAnimating'
                 /\ ~isCalculated /\ isCalculated'
                 /\ imputationLog = <<>>
                 /\ Len(imputationLog') = 1 + DetailCount(students')
                 /\ ~HasNull(students')
                 /\ call'.fn = "handleRunAlgorithm"
                 /\ Records(students') = Records(call'.newStudents)
                 /\ timers' = <<>>)]_vars

\* C13 witness: a run over a cohort with a null cell has completed under a time
\* weight other than the default: the cohort has one imputation detail, the log
\* two lines, and both flags have switched.
C13_Witness ==
    /\ call.fn = "handleRunAlgorithm"
    /\ HasNull(call.students)
    /\ \E t \in 1..Len(timeSlots) : timeSlots[t].weight # DEFAULT_TIME_WEIGHTS[t]
    /\ isCalculated
    /\ ~isAnimating
    /\ DetailCount(students) = 1
    /\ Len(imputationLog) = 2
    /\ timers = <<>>

\* C14: a weight change triggers a re-score and no re-imputation.  A step that
\* changes a time-slot or subject weight is taken with a cohort in state and
\* queues the re-score; the step that renders the re-score leaves every weight
\* as it is, and after it every finalScore is the weighted sum under the
\* weights in state and the cohort is in non-increasing order of finalScore.
\* In both steps the students, their matrices and their imputation details are
\* those of before the step, no callback is scheduled and the flags, the log
\* and the algorithm are untouched.  A queued re-score is dropped only by a
\* step that stores another cohort: a data load, or the completion of a run,
\* which scores its cohort under the weights in state.
C14_RescoreOnly ==
    [][/\ (timeSlots' # timeSlots \/ subjects' # subjects)
            => (/\ Len(students) > 0
                /\ rescorePending'
                /\ Len(students') = Len(students)
                /\ Records(students') = Records(students)
                /\ UNCHANGED <<timers, isCalculated, isAnimating, imputationLog, algorithm>>)
       /\ (call'.fn = "rescoreEffect" /\ call.fn # "rescoreEffect")
            => (/\ rescorePending
                /\ Len(students') = Len(students)
                /\ Records(students') = Records(students)
                /\ ScoresOf(students', timeSlots', subjects')
                /\ OrderedList(students')
                /\ UNCHANGED <<timeSlots, subjects, timers, isCalculated, isAnimating,
                               imputationLog, algorithm>>)
       /\ (rescorePending /\ ~rescorePending')
            => (\/ call'.fn \in {"reset", "handleFileUpload"}
                \/ /\ ScoresOf(students', timeSlots', subjects')
                   /\ OrderedList(students')
                   /\ (Records(students') = Records(students)
                          \/ call'.fn = "handleRunAlgorithm"))]_vars

\* C14 witness: the second time weight was raised to 0.5 on an imputed cohort
\* and the re-score has been rendered; the first student keeps the imputation
\* detail and the value written by the run, and is scored under the new weight.
C14_Witness ==
    /\ call.fn = "rescoreEffect"
    /\ isCalculated
    /\ timeSlots[2].weight = 50
    /\ \E j \in 1..Len(students) :
          /\ students[j].id = 1
          /\ DOMAIN students[j].imputedDetails = {<<timeSlots[1].id, subjects[1].id>>}
          /\ students[j].data[timeSlots[1].id][subjects[1].id]
                 = students[j].imputedDetails[<<timeSlots[1].id, subjects[1].id>>].val
          /\ IsScore(students[j].finalScore, ExpectedFinalScore(students[j]))
          /\ students[j].finalScore # FZero

(***************************************************************************)
(* Further claims about the imputation pass (checked under SpecRun).       *)
(***************************************************************************)
\* C15: when no student of the input has the cell (t, sb) present, the mean and
\* the standard deviation of the cross-section are 0, and every such cell
\* resolved by the algorithm is written as 0 and recorded with value 0: under
\* regression whether a reference subject is found (method regression) or not
\* (mean-fill), under nearest-neighbour (no student qualifies) and under
\* Box-Muller whatever the deviate drawn; the pass completes with every cell of
\* the cohort filled.
C15_EmptyCrossSection ==
    Ran =>
        \A x \in ByAlgorithm :
            HavePresent(x[2], x[3]) = {} =>
                LET validVals == ValidVals(call.students, timeSlots[x[2]].id, subjects[x[3]].id)
                    d == DetailOf(x[1], x[2], x[3])
                IN  /\ validVals = <<>>
                    /\ MeanOf(validVals) = FZero
                    /\ StdOf(validVals, MeanOf(validVals)) = FZero
                    /\ OutCell(x[1], x[2], x[3]) = 0
                    /\ d.val = 0
                    /\ call.algorithm = "regression" =>
                           \/ d.method = "regression" /\ d.ref # 0
                           \/ d.method = "mean-fill"
                    /\ call.algorithm = "knn" =>
                           d.method = "knn" /\ Qualified(x[1], x[2], x[3]) = {}
                    /\ call.algorithm = "box-muller" =>
                           d.method = "box-muller" /\ TraceOf(x[1], x[2], x[3]).drawn
                    /\ ~HasNull(students)

\* C15 witness: under regression, a cell no student has, of a student whose
\* reference subject holds 90 where the cohort's reference values sum to more
\* than 0, written as 0.
C15_Witness ==
    /\ Ran
    /\ call.algorithm = "regression"
    /\ \E x \in ByAlgorithm :
          /\ HavePresent(x[2], x[3]) = {}
          /\ DetailOf(x[1], x[2], x[3]).method = "regression"
          /\ \E ref \in 1..Len(subjects) :
                /\ subjects[ref].id = DetailOf(x[1], x[2], x[3]).ref
                /\ InCell(x[1], x[2], ref) = 90
                /\ CrossSum(x[2], ref) > 0
          /\ OutCell(x[1], x[2], x[3]) = 0

\* The keys of the imputation details of student i of the result.
DetailKeys(i) == DOMAIN call.newStudents[i].imputedDetails

\* C16: a pass changes exactly the cells that were absent in its input.  The
\* result has the students of the input; a cell present in the input has the
\* same value in the result and no imputation detail; a cell absent in the
\* input is present in the result and has a detail whose value is the cell's
\* value in the result; there is no other detail.  The cohort put in state is
\* the result.
C16_ExactlyAbsentCells ==
    Ran =>
        /\ Len(call.newStudents) = Len(call.students)
        /\ \A i \in 1..Len(call.students) :
              /\ call.newStudents[i].id = call.students[i].id
              /\ DOMAIN call.newStudents[i].data = DOMAIN call.students[i].data
              /\ DetailKeys(i) \subseteq
                     { <<timeSlots[t].id, subjects[sb].id>> :
                           t \in 1..Len(timeSlots), sb \in 1..Len(subjects) }
        /\ \A x \in RunCells :
              LET key == <<timeSlots[x[2]].id, subjects[x[3]].id>>
              IN  /\ InCell(x[1], x[2], x[3]) # Null =>
                         /\ OutCell(x[1], x[2], x[3]) = InCell(x[1], x[2], x[3])
                         /\ key \notin DetailKeys(x[1])
                  /\ InCell(x[1], x[2], x[3]) = Null =>
                         /\ OutCell(x[1], x[2], x[3]) # Null
                         /\ key \in DetailKeys(x[1])
                         /\ DetailOf(x[1], x[2], x[3]).val = OutCell(x[1], x[2], x[3])
        /\ Records(students) = Records(call.newStudents)

\* C16 witness: a pass over two students, the first with two absent cells and
\* the second with one, at another time slot; each has details for its own
\* absent cells only.
C16_Witness ==
    /\ Ran
    /\ Len(call.students) = 2
    /\ Cardinality(DetailKeys(1)) = 2
    /\ Cardinality(DetailKeys(2)) = 1
    /\ DetailKeys(1) \cap DetailKeys(2) = {}
    /\ \E x \in RunCells :
          /\ x[1] = 2
          /\ InCell(1, x[2], x[3]) = Null
          /\ InCell(2, x[2], x[3]) # Null
          /\ OutCell(2, x[2], x[3]) = InCell(2, x[2], x[3])

\* The methods by which the configured algorithm resolves a cell.
AlgorithmMethods ==
    IF call.algorithm = "regression" THEN {"regression", "mean-fill"}
    ELSE IF call.algorithm = "knn" THEN {"knn"}
    ELSE {"box-muller"}

\* C17: in every imputation detail of a pass the recorded gap type is discrete
\* exactly when the recorded method is temporal interpolation, and continuous
\* otherwise.  A cell classified discrete whose previous or next cell is absent
\* in the working copy when the pass reaches it is recorded continuous and
\* resolved by the configured algorithm.
C17_TypeMatchesMethod ==
    Ran =>
        \A x \in RunCells :
            InCell(x[1], x[2], x[3]) = Null =>
                LET d == DetailOf(x[1], x[2], x[3])
                    prev == IF x[2] > 1
                            THEN WorkingCell(x[1], x[2] - 1, x[3], x[2], x[3]) ELSE Null
                    next == IF x[2] < Len(timeSlots)
                            THEN WorkingCell(x[1], x[2] + 1, x[3], x[2], x[3]) ELSE Null
                IN  /\ d.type \in {"discrete", "continuous"}
                    /\ d.type = "discrete" <=> d.method = "interpolation"
                    /\ d.method # "interpolation" => d.method \in AlgorithmMethods
                    /\ (TraceOf(x[1], x[2], x[3]).cls = "discrete"
                            /\ (prev = Null \/ next = Null))
                           => (d.type = "continuous" /\ d.method \in AlgorithmMethods)

\* C17 witness: an interior gap over the second and third of four time slots.
\* Its first cell is classified discrete, its next cell is absent: recorded
\* continuous, resolved by the algorithm.  Its second cell is then interpolated.
C17_Witness ==
    /\ Ran
    /\ Len(timeSlots) = 4
    /\ \E i \in 1..Len(call.students), sb \in 1..Len(subjects) :
          /\ GapOf(call.students[i].data, 2, subjects[sb].id, timeSlots) = {2, 3}
          /\ TraceOf(i, 2, sb).cls = "discrete"
          /\ DetailOf(i, 2, sb).type = "continuous"
          /\ DetailOf(i, 2, sb).method \in AlgorithmMethods
          /\ TraceOf(i, 3, sb).cls = "discrete"
          /\ DetailOf(i, 3, sb).type = "discrete"
          /\ DetailOf(i, 3, sb).method = "interpolation"

(***************************************************************************)
(* A claim about a data load during a run (checked under Spec).  While a   *)
(* run is in flight the cohort in state is the most recently loaded data   *)
(* set, re-scored: the only steps that change its records are file imports *)
(* (C13).                                                                  *)
(***************************************************************************)
\* The student `after` is the student `before` with its absent cells imputed.
ImputedFrom(after, before) ==
    /\ after.id = before.id
    /\ \A t \in 1..Len(timeSlots), sb \in 1..Len(subjects) :
          LET old == before.data[timeSlots[t].id][subjects[sb].id]
              new == after.data[timeSlots[t].id][subjects[sb].id]
          IN  /\ old # Null => new = old
              /\ old = Null <=> <<timeSlots[t].id, subjects[sb].id>> \in DOMAIN after.imputedDetails

\* C18 as stated: a data load made while a run is in flight is not lost.  At the
\* step that completes a run, the cohort put in state consists of the students
\* of the data set loaded last, the one in state just before the step: each
\* student of the new cohort is a student of that data set with its absent
\* cells imputed and its present cells as loaded.
C18_Original ==
    [][(isAnimating /\ ~isAnimating')
          => (/\ Len(students') = Len(students)
              /\ \A j \in 1..Len(students') :
                    \E k \in 1..Len(students) : ImputedFrom(students'[j], students[k]))]_vars

====
